---- MODULE Spec2Model ----
(***************************************************************************)
(* REInbox CSV Cleaner (src/app.py): the explode-and-classify pipeline.    *)
(* Text is a sequence of Unicode code points, so that the regular          *)
(* expression scans, str.lower, str.strip, int() and the f-string column   *)
(* names are computed character by character, as the Python code does.     *)
(***************************************************************************)
EXTENDS Integers, Sequences, FiniteSets, TLC

\* ------------------------------------------------------------------ bounds
\* the largest number of data rows of an uploaded table
MaxRows == 2

\* ------------------------------------------------------------- characters
\* A character is its Unicode code point; the tables are those of the
\* Unicode 14.0 database that Python 3.11 carries.

Range(s) == {s[i] : i \in 1..Len(s)}

\* [A-Za-z] of EMAIL_RE. The pattern is a str compiled with re.I, so the
\* class folds case over Unicode: it also takes U+0130 and U+0131 (dotted
\* capital I, dotless i), U+017F (long s) and U+212A (Kelvin sign).
Letters == (65..90) \cup (97..122) \cup {304, 305, 383, 8490}
\* [0-9] of EMAIL_RE
AsciiDigits == 48..57
\* [A-Za-z0-9._%+\-]
LocalChars == Letters \cup AsciiDigits \cup {46, 95, 37, 43, 45}
\* [A-Za-z0-9.\-]
DomainChars == Letters \cup AsciiDigits \cup {46, 45}

\* the code point of digit zero of every run of ten decimal digits (Nd)
DigitZeros == {
  48, 1632, 1776, 1984, 2406, 2534, 2662, 2790, 2918, 3046, 3174, 3302,
  3430, 3558, 3664, 3792, 3872, 4160, 4240, 6112, 6160, 6470, 6608, 6784,
  6800, 6992, 7088, 7232, 7248, 42528, 43216, 43264, 43472, 43504, 43600,
  44016, 65296, 66720, 68912, 69734, 69872, 69942, 70096, 70384, 70736,
  70864, 71248, 71360, 71472, 71904, 72016, 72784, 73040, 73120, 92768,
  92864, 93008, 120782, 120792, 120802, 120812, 120822, 123200, 123632,
  125264, 130032}
\* \d of a str pattern: every Unicode decimal digit
Digits == UNION {z..(z + 9) : z \in DigitZeros}
\* the value int() gives a decimal digit
DigitValue(c) == c - (CHOOSE z \in DigitZeros : z <= c /\ c <= z + 9)

\* the characters str.strip() removes: those with str.isspace()
Whitespace ==
  {9, 10, 11, 12, 13, 28, 29, 30, 31, 32, 133, 160, 5760, 8192, 8193, 8194,
   8195, 8196, 8197, 8198, 8199, 8200, 8201, 8202, 8232, 8233, 8239, 8287,
   12288}

\* the simple lower-case mappings above ASCII, four numbers to a mapping:
\* lo, hi, step, delta maps lo, lo + step, .., hi to themselves plus delta
LowerTable == <<
  192,214,1,32, 216,222,1,32, 256,302,2,1, 306,310,2,1, 313,327,2,1,
  330,374,2,1, 376,376,1,-121, 377,381,2,1, 385,385,1,210, 386,388,2,1,
  390,390,1,206, 391,391,1,1, 393,394,1,205, 395,395,1,1, 398,398,1,79,
  399,399,1,202, 400,400,1,203, 401,401,1,1, 403,403,1,205, 404,404,1,207,
  406,406,1,211, 407,407,1,209, 408,408,1,1, 412,412,1,211, 413,413,1,213,
  415,415,1,214, 416,420,2,1, 422,422,1,218, 423,423,1,1, 425,425,1,218,
  428,428,1,1, 430,430,1,218, 431,431,1,1, 433,434,1,217, 435,437,2,1,
  439,439,1,219, 440,440,1,1, 444,444,1,1, 452,452,1,2, 453,453,1,1,
  455,455,1,2, 456,456,1,1, 458,458,1,2, 459,475,2,1, 478,494,2,1,
  497,497,1,2, 498,500,2,1, 502,502,1,-97, 503,503,1,-56, 504,542,2,1,
  544,544,1,-130, 546,562,2,1, 570,570,1,10795, 571,571,1,1,
  573,573,1,-163, 574,574,1,10792, 577,577,1,1, 579,579,1,-195,
  580,580,1,69, 581,581,1,71, 582,590,2,1, 880,882,2,1, 886,886,1,1,
  895,895,1,116, 902,902,1,38, 904,906,1,37, 908,908,1,64, 910,911,1,63,
  913,929,1,32, 931,939,1,32, 975,975,1,8, 984,1006,2,1, 1012,1012,1,-60,
  1015,1015,1,1, 1017,1017,1,-7, 1018,1018,1,1, 1021,1023,1,-130,
  1024,1039,1,80, 1040,1071,1,32, 1120,1152,2,1, 1162,1214,2,1,
  1216,1216,1,15, 1217,1229,2,1, 1232,1326,2,1, 1329,1366,1,48,
  4256,4293,1,7264, 4295,4295,1,7264, 4301,4301,1,7264, 5024,5103,1,38864,
  5104,5109,1,8, 7312,7354,1,-3008, 7357,7359,1,-3008, 7680,7828,2,1,
  7838,7838,1,-7615, 7840,7934,2,1, 7944,7951,1,-8, 7960,7965,1,-8,
  7976,7983,1,-8, 7992,7999,1,-8, 8008,8013,1,-8, 8025,8031,2,-8,
  8040,8047,1,-8, 8072,8079,1,-8, 8088,8095,1,-8, 8104,8111,1,-8,
  8120,8121,1,-8, 8122,8123,1,-74, 8124,8124,1,-9, 8136,8139,1,-86,
  8140,8140,1,-9, 8152,8153,1,-8, 8154,8155,1,-100, 8168,8169,1,-8,
  8170,8171,1,-112, 8172,8172,1,-7, 8184,8185,1,-128, 8186,8187,1,-126,
  8188,8188,1,-9, 8486,8486,1,-7517, 8490,8490,1,-8383, 8491,8491,1,-8262,
  8498,8498,1,28, 8544,8559,1,16, 8579,8579,1,1, 9398,9423,1,26,
  11264,11311,1,48, 11360,11360,1,1, 11362,11362,1,-10743,
  11363,11363,1,-3814, 11364,11364,1,-10727, 11367,11371,2,1,
  11373,11373,1,-10780, 11374,11374,1,-10749, 11375,11375,1,-10783,
  11376,11376,1,-10782, 11378,11378,1,1, 11381,11381,1,1,
  11390,11391,1,-10815, 11392,11490,2,1, 11499,11501,2,1, 11506,11506,1,1,
  42560,42604,2,1, 42624,42650,2,1, 42786,42798,2,1, 42802,42862,2,1,
  42873,42875,2,1, 42877,42877,1,-35332, 42878,42886,2,1, 42891,42891,1,1,
  42893,42893,1,-42280, 42896,42898,2,1, 42902,42920,2,1,
  42922,42922,1,-42308, 42923,42923,1,-42319, 42924,42924,1,-42315,
  42925,42925,1,-42305, 42926,42926,1,-42308, 42928,42928,1,-42258,
  42929,42929,1,-42282, 42930,42930,1,-42261, 42931,42931,1,928,
  42932,42946,2,1, 42948,42948,1,-48, 42949,42949,1,-42307,
  42950,42950,1,-35384, 42951,42953,2,1, 42960,42960,1,1, 42966,42968,2,1,
  42997,42997,1,1, 65313,65338,1,32, 66560,66599,1,40, 66736,66771,1,40,
  66928,66938,1,39, 66940,66954,1,39, 66956,66962,1,39, 66964,66965,1,39,
  68736,68786,1,64, 71840,71871,1,32, 93760,93791,1,32, 125184,125217,1,34>>

\* the case-ignorable characters (Case_Ignorable), two numbers to a range:
\* lo, hi
CaseIgnorable == <<
  39,39, 46,46, 58,58, 94,94, 96,96, 168,168, 173,173, 175,175, 180,180,
  183,184, 688,879, 884,885, 890,890, 900,901, 903,903, 1155,1161,
  1369,1369, 1375,1375, 1425,1469, 1471,1471, 1473,1474, 1476,1477,
  1479,1479, 1524,1524, 1536,1541, 1552,1562, 1564,1564, 1600,1600,
  1611,1631, 1648,1648, 1750,1757, 1759,1768, 1770,1773, 1807,1807,
  1809,1809, 1840,1866, 1958,1968, 2027,2037, 2042,2042, 2045,2045,
  2070,2093, 2137,2139, 2184,2184, 2192,2193, 2200,2207, 2249,2306,
  2362,2362, 2364,2364, 2369,2376, 2381,2381, 2385,2391, 2402,2403,
  2417,2417, 2433,2433, 2492,2492, 2497,2500, 2509,2509, 2530,2531,
  2558,2558, 2561,2562, 2620,2620, 2625,2626, 2631,2632, 2635,2637,
  2641,2641, 2672,2673, 2677,2677, 2689,2690, 2748,2748, 2753,2757,
  2759,2760, 2765,2765, 2786,2787, 2810,2815, 2817,2817, 2876,2876,
  2879,2879, 2881,2884, 2893,2893, 2901,2902, 2914,2915, 2946,2946,
  3008,3008, 3021,3021, 3072,3072, 3076,3076, 3132,3132, 3134,3136,
  3142,3144, 3146,3149, 3157,3158, 3170,3171, 3201,3201, 3260,3260,
  3263,3263, 3270,3270, 3276,3277, 3298,3299, 3328,3329, 3387,3388,
  3393,3396, 3405,3405, 3426,3427, 3457,3457, 3530,3530, 3538,3540,
  3542,3542, 3633,3633, 3636,3642, 3654,3662, 3761,3761, 3764,3772,
  3782,3782, 3784,3789, 3864,3865, 3893,3893, 3895,3895, 3897,3897,
  3953,3966, 3968,3972, 3974,3975, 3981,3991, 3993,4028, 4038,4038,
  4141,4144, 4146,4151, 4153,4154, 4157,4158, 4184,4185, 4190,4192,
  4209,4212, 4226,4226, 4229,4230, 4237,4237, 4253,4253, 4348,4348,
  4957,4959, 5906,5908, 5938,5939, 5970,5971, 6002,6003, 6068,6069,
  6071,6077, 6086,6086, 6089,6099, 6103,6103, 6109,6109, 6155,6159,
  6211,6211, 6277,6278, 6313,6313, 6432,6434, 6439,6440, 6450,6450,
  6457,6459, 6679,6680, 6683,6683, 6742,6742, 6744,6750, 6752,6752,
  6754,6754, 6757,6764, 6771,6780, 6783,6783, 6823,6823, 6832,6862,
  6912,6915, 6964,6964, 6966,6970, 6972,6972, 6978,6978, 7019,7027,
  7040,7041, 7074,7077, 7080,7081, 7083,7085, 7142,7142, 7144,7145,
  7149,7149, 7151,7153, 7212,7219, 7222,7223, 7288,7293, 7376,7378,
  7380,7392, 7394,7400, 7405,7405, 7412,7412, 7416,7417, 7468,7530,
  7544,7544, 7579,7679, 8125,8125, 8127,8129, 8141,8143, 8157,8159,
  8173,8175, 8189,8190, 8203,8207, 8216,8217, 8228,8228, 8231,8231,
  8234,8238, 8288,8292, 8294,8303, 8305,8305, 8319,8319, 8336,8348,
  8400,8432, 11388,11389, 11503,11505, 11631,11631, 11647,11647,
  11744,11775, 11823,11823, 12293,12293, 12330,12333, 12337,12341,
  12347,12347, 12441,12446, 12540,12542, 40981,40981, 42232,42237,
  42508,42508, 42607,42610, 42612,42621, 42623,42623, 42652,42655,
  42736,42737, 42752,42785, 42864,42864, 42888,42890, 42994,42996,
  43000,43001, 43010,43010, 43014,43014, 43019,43019, 43045,43046,
  43052,43052, 43204,43205, 43232,43249, 43263,43263, 43302,43309,
  43335,43345, 43392,43394, 43443,43443, 43446,43449, 43452,43453,
  43471,43471, 43493,43494, 43561,43566, 43569,43570, 43573,43574,
  43587,43587, 43596,43596, 43632,43632, 43644,43644, 43696,43696,
  43698,43700, 43703,43704, 43710,43711, 43713,43713, 43741,43741,
  43756,43757, 43763,43764, 43766,43766, 43867,43871, 43881,43883,
  44005,44005, 44008,44008, 44013,44013, 64286,64286, 64434,64450,
  65024,65039, 65043,65043, 65056,65071, 65106,65106, 65109,65109,
  65279,65279, 65287,65287, 65294,65294, 65306,65306, 65342,65342,
  65344,65344, 65392,65392, 65438,65439, 65507,65507, 65529,65531,
  66045,66045, 66272,66272, 66422,66426, 67456,67461, 67463,67504,
  67506,67514, 68097,68099, 68101,68102, 68108,68111, 68152,68154,
  68159,68159, 68325,68326, 68900,68903, 69291,69292, 69446,69456,
  69506,69509, 69633,69633, 69688,69702, 69744,69744, 69747,69748,
  69759,69761, 69811,69814, 69817,69818, 69821,69821, 69826,69826,
  69837,69837, 69888,69890, 69927,69931, 69933,69940, 70003,70003,
  70016,70017, 70070,70078, 70089,70092, 70095,70095, 70191,70193,
  70196,70196, 70198,70199, 70206,70206, 70367,70367, 70371,70378,
  70400,70401, 70459,70460, 70464,70464, 70502,70508, 70512,70516,
  70712,70719, 70722,70724, 70726,70726, 70750,70750, 70835,70840,
  70842,70842, 70847,70848, 70850,70851, 71090,71093, 71100,71101,
  71103,71104, 71132,71133, 71219,71226, 71229,71229, 71231,71232,
  71339,71339, 71341,71341, 71344,71349, 71351,71351, 71453,71455,
  71458,71461, 71463,71467, 71727,71735, 71737,71738, 71995,71996,
  71998,71998, 72003,72003, 72148,72151, 72154,72155, 72160,72160,
  72193,72202, 72243,72248, 72251,72254, 72263,72263, 72273,72278,
  72281,72283, 72330,72342, 72344,72345, 72752,72758, 72760,72765,
  72767,72767, 72850,72871, 72874,72880, 72882,72883, 72885,72886,
  73009,73014, 73018,73018, 73020,73021, 73023,73029, 73031,73031,
  73104,73105, 73109,73109, 73111,73111, 73459,73460, 78896,78904,
  92912,92916, 92976,92982, 92992,92995, 94031,94031, 94095,94111,
  94176,94177, 94179,94180, 110576,110579, 110581,110587, 110589,110590,
  113821,113822, 113824,113827, 118528,118573, 118576,118598,
  119143,119145, 119155,119170, 119173,119179, 119210,119213,
  119362,119364, 121344,121398, 121403,121452, 121461,121461,
  121476,121476, 121499,121503, 121505,121519, 122880,122886,
  122888,122904, 122907,122913, 122915,122916, 122918,122922,
  123184,123197, 123566,123566, 123628,123631, 125136,125142,
  125252,125259, 127995,127999, 917505,917505, 917536,917631, 917760,917999>>

\* the cased characters (Cased) that are not case-ignorable, two numbers to a
\* range: lo, hi
CasedTable == <<
  65,90, 97,122, 170,170, 181,181, 186,186, 192,214, 216,246, 248,442,
  444,447, 452,659, 661,687, 880,883, 886,887, 891,893, 895,895, 902,902,
  904,906, 908,908, 910,929, 931,1013, 1015,1153, 1162,1327, 1329,1366,
  1376,1416, 4256,4293, 4295,4295, 4301,4301, 4304,4346, 4349,4351,
  5024,5109, 5112,5117, 7296,7304, 7312,7354, 7357,7359, 7424,7467,
  7531,7543, 7545,7578, 7680,7957, 7960,7965, 7968,8005, 8008,8013,
  8016,8023, 8025,8025, 8027,8027, 8029,8029, 8031,8061, 8064,8116,
  8118,8124, 8126,8126, 8130,8132, 8134,8140, 8144,8147, 8150,8155,
  8160,8172, 8178,8180, 8182,8188, 8450,8450, 8455,8455, 8458,8467,
  8469,8469, 8473,8477, 8484,8484, 8486,8486, 8488,8488, 8490,8493,
  8495,8500, 8505,8505, 8508,8511, 8517,8521, 8526,8526, 8544,8575,
  8579,8580, 9398,9449, 11264,11387, 11390,11492, 11499,11502, 11506,11507,
  11520,11557, 11559,11559, 11565,11565, 42560,42605, 42624,42651,
  42786,42863, 42865,42887, 42891,42894, 42896,42954, 42960,42961,
  42963,42963, 42965,42969, 42997,42998, 43002,43002, 43824,43866,
  43872,43880, 43888,43967, 64256,64262, 64275,64279, 65313,65338,
  65345,65370, 66560,66639, 66736,66771, 66776,66811, 66928,66938,
  66940,66954, 66956,66962, 66964,66965, 66967,66977, 66979,66993,
  66995,67001, 67003,67004, 68736,68786, 68800,68850, 71840,71903,
  93760,93823, 119808,119892, 119894,119964, 119966,119967, 119970,119970,
  119973,119974, 119977,119980, 119982,119993, 119995,119995,
  119997,120003, 120005,120069, 120071,120074, 120077,120084,
  120086,120092, 120094,120121, 120123,120126, 120128,120132,
  120134,120134, 120138,120144, 120146,120485, 120488,120512,
  120514,120538, 120540,120570, 120572,120596, 120598,120628,
  120630,120654, 120656,120686, 120688,120712, 120714,120744,
  120746,120770, 120772,120779, 122624,122633, 122635,122654,
  125184,125251, 127280,127305, 127312,127337, 127344,127369>>

\* c lies in one of the ranges of tbl
InRanges(c, tbl) ==
  \E k \in 1..(Len(tbl) \div 2) : tbl[2 * k - 1] <= c /\ c <= tbl[2 * k]

\* the lower case of one character by the simple mapping
LowerMap(c) ==
  IF c < 128 THEN (IF c \in 65..90 THEN c + 32 ELSE c)
  ELSE LET t == LowerTable
           hits == {k \in 0..((Len(t) \div 4) - 1) :
                      /\ t[4 * k + 1] <= c
                      /\ c <= t[4 * k + 2]
                      /\ (c - t[4 * k + 1]) % t[4 * k + 3] = 0}
       IN IF hits = {} THEN c ELSE c + t[4 * (CHOOSE k \in hits : TRUE) + 4]

\* the capital sigma at s[i] is final: a cased character comes before it and
\* none comes after it, case-ignorable characters being skipped on both sides
FinalSigma(s, i) ==
  LET seen == {j \in 1..Len(s) : ~InRanges(s[j], CaseIgnorable)}
      before == {j \in seen : j < i}
      after == {j \in seen : j > i}
      near == (IF before = {} THEN {} ELSE {CHOOSE j \in before : \A k \in before : j >= k})
              \cup (IF after = {} THEN {} ELSE {CHOOSE j \in after : \A k \in after : j <= k})
      cased == {j \in near : InRanges(s[j], CasedTable)}
  IN (\E j \in cased : j < i) /\ ~(\E j \in cased : j > i)

\* what str.lower() puts for the character at s[i]: U+0130 gives "i" and a
\* combining dot above, a capital sigma gives the final or the medial sigma
LowerChar(s, i) ==
  IF s[i] = 304 THEN <<105, 775>>
  ELSE IF s[i] = 931 THEN <<IF FinalSigma(s, i) THEN 962 ELSE 963>>
  ELSE <<LowerMap(s[i])>>

RECURSIVE LowerFrom(_, _)
LowerFrom(s, i) ==
  IF i > Len(s) THEN <<>> ELSE LowerChar(s, i) \o LowerFrom(s, i + 1)

\* str.lower(); an all-ASCII text keeps its length
Lower(s) ==
  IF \A i \in 1..Len(s) : s[i] < 128
  THEN [i \in 1..Len(s) |-> IF s[i] \in 65..90 THEN s[i] + 32 ELSE s[i]]
  ELSE LowerFrom(s, 1)

\* str.strip()
Strip(s) ==
  LET keep == {i \in 1..Len(s) : s[i] \notin Whitespace}
  IN IF keep = {} THEN <<>>
     ELSE SubSeq(s, CHOOSE i \in keep : \A j \in keep : i <= j,
                    CHOOSE i \in keep : \A j \in keep : i >= j)

\* t in f
Contains(f, t) ==
  \E i \in 0..(Len(f) - Len(t)) : SubSeq(f, i + 1, i + Len(t)) = t

\* s.startswith(p) / s.endswith(p)
StartsWith(s, p) == Len(s) >= Len(p) /\ SubSeq(s, 1, Len(p)) = p
EndsWith(s, p) == Len(s) >= Len(p) /\ SubSeq(s, Len(s) - Len(p) + 1, Len(s)) = p

\* the first index >= from whose character is outside cls; Len(s) + 1 if none
RunEnd(s, from, cls) ==
  LET out == {i \in from..Len(s) : s[i] \notin cls}
  IN IF out = {} THEN Len(s) + 1 ELSE CHOOSE i \in out : \A j \in out : i <= j

\* ---------------------------------------------------------------- EMAIL_RE
\* EMAIL_RE matched at position st of s: the index just past the match, or 0.
\* local+ is the whole run of local characters from st (none of them is "@");
\* the domain is taken greedily, so the "." before the final label is the last
\* one of the domain run that has a domain character before it and two letters
\* after it; the final label is the whole run of letters after that dot.
MatchEnd(s, st) ==
  LET p == RunEnd(s, st, LocalChars)
      q == RunEnd(s, p + 1, DomainChars)
      dots == {d \in (p + 2)..(q - 1) :
                 /\ s[d] = 46
                 /\ d + 2 <= Len(s)
                 /\ s[d + 1] \in Letters
                 /\ s[d + 2] \in Letters}
  IN IF p = st \/ p > Len(s) \/ s[p] # 64 \/ dots = {} THEN 0
     ELSE RunEnd(s, (CHOOSE d \in dots : \A e \in dots : d >= e) + 1, Letters)

\* EMAIL_RE.findall(s): the non-overlapping matches, leftmost first
RECURSIVE FindFrom(_, _)
FindFrom(s, pos) ==
  IF pos > Len(s) THEN <<>>
  ELSE IF MatchEnd(s, pos) > 0
       THEN <<SubSeq(s, pos, MatchEnd(s, pos) - 1)>> \o FindFrom(s, MatchEnd(s, pos))
       ELSE FindFrom(s, pos + 1)

FindAll(s) == FindFrom(s, 1)

\* EMAIL_RE.fullmatch(s)
FullMatch(s) == MatchEnd(s, 1) = Len(s) + 1

\* list(dict.fromkeys(xs)): first occurrences, in order
RECURSIVE Unique(_)
Unique(xs) ==
  IF xs = <<>> THEN <<>>
  ELSE LET front == Unique(SubSeq(xs, 1, Len(xs) - 1))
           x == xs[Len(xs)]
       IN IF x \in Range(front) THEN front ELSE Append(front, x)

\* s.split(sep) for a one-character separator
RECURSIVE Split(_, _)
Split(s, sep) ==
  LET at == {i \in 1..Len(s) : s[i] = sep}
  IN IF at = {} THEN <<s>>
     ELSE LET i == CHOOSE k \in at : \A j \in at : k <= j
          IN <<SubSeq(s, 1, i - 1)>> \o Split(SubSeq(s, i + 1, Len(s)), sep)

\* ------------------------------------------------------------------- cells
\* A cell of a DataFrame: missing (NaN / pd.NA), a str, or a number; s is what
\* str(cell) gives for a str or a number.
NA == [kind |-> "na", s |-> <<>>]
Str(t) == [kind |-> "str", s |-> t]
Num(t) == [kind |-> "num", s |-> t]

\* pd.isna / pd.notna
isna(c) == c.kind = "na"
notna(c) == c.kind # "na"

\* str(cell): str(float("nan")) is "nan"
StrOf(c) == IF c.kind = "na" THEN <<110,97,110>> (* "nan" *) ELSE c.s

\* ------------------------------------------------------------------ tables
\* A DataFrame: the column names in order and the rows, each row holding one
\* cell per column.
Index(cols, name) == CHOOSE k \in 1..Len(cols) : cols[k] = name
HasCol(cols, name) == name \in Range(cols)

\* row.get(name, pd.NA)
Get(cols, row, name) == IF HasCol(cols, name) THEN row[Index(cols, name)] ELSE NA

\* row[name] = val, on the column list and on the row
ColsWith(cols, name) == IF HasCol(cols, name) THEN cols ELSE Append(cols, name)
RowWith(cols, row, name, val) ==
  IF HasCol(cols, name) THEN [row EXCEPT ![Index(cols, name)] = val]
  ELSE Append(row, val)

\* the subsequence of xs at the indices in keep, in order
RECURSIVE Pick(_, _, _)
Pick(xs, keep, k) ==
  IF k > Len(xs) THEN <<>>
  ELSE (IF k \in keep THEN <<xs[k]>> ELSE <<>>) \o Pick(xs, keep, k + 1)

\* df.drop(columns=names, errors="ignore")
DropCols(t, names) ==
  LET keep == {k \in 1..Len(t.cols) : t.cols[k] \notin names}
  IN [cols |-> Pick(t.cols, keep, 1),
      rows |-> [r \in 1..Len(t.rows) |-> Pick(t.rows[r], keep, 1)]]

\* df[name] = pd.NA when the column is not there
EnsureCol(t, name) ==
  IF HasCol(t.cols, name) THEN t
  ELSE [cols |-> Append(t.cols, name),
        rows |-> [r \in 1..Len(t.rows) |-> Append(t.rows[r], NA)]]

Email == <<69,109,97,105,108>> (* "Email" *)
Flags == <<70,108,97,103,115>> (* "Flags" *)

\* the Email / Flags cell of a row of table t
EmailOf(t, r) == Get(t.cols, t.rows[r], Email)
FlagsOf(t, r) == Get(t.cols, t.rows[r], Flags)

\* ------------------------------------------------------- robust_read_csv
Encodings == <<"utf-8", "utf-8-sig", "latin-1">>

\* pd.read_csv gives a column the object dtype when it holds a str
IsObjectCol(t, k) == \E r \in 1..Len(t.rows) : t.rows[r][k].kind = "str"

\* ------------------------------------------------- strip_object_columns
\* work[c].astype(str).str.strip() on every object column
strip_object_columns(df) ==
  [cols |-> df.cols,
   rows |-> [r \in 1..Len(df.rows) |->
               [k \in 1..Len(df.cols) |->
                  IF IsObjectCol(df, k)
                  THEN Str(Strip(StrOf(df.rows[r][k])))
                  ELSE df.rows[r][k]]]]

\* ----------------------------------------------------- looks_valid_email
\* the checks of looks_valid_email on a str
email_checks(s) ==
  LET e == Lower(Strip(s))
      at == CHOOSE i \in 1..Len(e) : e[i] = 64 /\ \A j \in 1..(i - 1) : e[j] # 64
      \* local, _, domain = e.partition("@")
      local == SubSeq(e, 1, at - 1)
      domain == SubSeq(e, at + 1, Len(e))
      labels == Split(domain, 46)
  IN /\ FullMatch(e)
     /\ ~(StartsWith(e, <<46>>) \/ EndsWith(e, <<46>>))
     /\ ~Contains(e, <<46,46>> (* ".." *))
     /\ local # <<>> /\ domain # <<>>
     /\ ~(StartsWith(local, <<46>>) \/ StartsWith(local, <<45>>)
            \/ EndsWith(local, <<46>>) \/ EndsWith(local, <<45>>))
     /\ ~(StartsWith(domain, <<46>>) \/ StartsWith(domain, <<45>>)
            \/ EndsWith(domain, <<46>>) \/ EndsWith(domain, <<45>>))
     /\ Contains(domain, <<46>>)
     /\ \A k \in 1..Len(labels) : Len(labels[k]) # 0
     /\ \A k \in 1..Len(labels) :
          ~(StartsWith(labels[k], <<45>>) \/ EndsWith(labels[k], <<45>>))
     /\ Len(labels[Len(labels)]) >= 2

\* looks_valid_email without the isinstance check: a missing Email passes
looks_valid_email_NA_PASSES(c) == IF c.kind # "str" THEN TRUE ELSE email_checks(c.s)

\* if not isinstance(e, str): return False; then the checks
looks_valid_email(c) == IF c.kind # "str" THEN FALSE ELSE email_checks(c.s)

\* ------------------------------------------------ detect_contact_indices
\* What a call gives: the value it returns, or the exception it raises.
Return(v) == [returns |-> v]
Raise(e) == [raises |-> e]

\* sys.get_int_max_str_digits(): the longest digit text int() converts
IntMaxStrDigits == 4300

\* A Python int that is not negative is the sequence of its decimal digits
\* (their values, the most significant first, no leading zero), so that it
\* has no largest value.
\* int(ds) for a text of decimal digits: any decimal digit of Unicode counts
\* with its value, leading zeros are dropped, and a text of more than
\* IntMaxStrDigits digits raises ValueError
ParseInt(ds) ==
  IF Len(ds) > IntMaxStrDigits THEN Raise("ValueError")
  ELSE LET vals == [k \in 1..Len(ds) |-> DigitValue(ds[k])]
           nz == {k \in 1..Len(vals) : vals[k] # 0}
       IN Return(IF nz = {} THEN <<0>>
                 ELSE SubSeq(vals, CHOOSE k \in nz : \A j \in nz : k <= j, Len(vals)))

\* the decimal text an f-string gives an int
FormatInt(n) == [k \in 1..Len(n) |-> 48 + n[k]]

\* m < n for two ints
IntLess(m, n) ==
  \/ Len(m) < Len(n)
  \/ /\ Len(m) = Len(n)
     /\ \E k \in 1..Len(m) : m[k] < n[k] /\ \A j \in 1..(k - 1) : m[j] = n[j]

\* the characters a literal p of a pattern matches under re.I: both cases of
\* p, and the characters that fold to them ("i" also takes U+0130 and U+0131,
\* "s" the long s U+017F, "k" the Kelvin sign U+212A)
IgnoreCase(p) ==
  (IF p \in 97..122 THEN {p, p - 32} ELSE IF p \in 65..90 THEN {p, p + 32} ELSE {p})
  \cup (IF p \in {105, 73} THEN {304, 305} ELSE {})
  \cup (IF p \in {115, 83} THEN {383} ELSE {})
  \cup (IF p \in {107, 75} THEN {8490} ELSE {})

\* the literal lit of a pattern matches s from index from on, under re.I
MatchLiteral(s, from, lit) ==
  /\ from + Len(lit) - 1 <= Len(s)
  /\ \A k \in 1..Len(lit) : s[from + k - 1] \in IgnoreCase(lit[k])

\* re.match(r"contact_(\d+)_<suffix>$", name, re.I): m.group(1), the digits,
\* or the empty text when there is no match.  "$" also matches just before
\* one final newline.
MatchSlot(name, suffix) ==
  LET pre == <<99,111,110,116,97,99,116,95>> (* "contact_" *)
      d == RunEnd(name, Len(pre) + 1, Digits)
      end == d + Len(suffix)
  IN IF /\ MatchLiteral(name, 1, pre)
        /\ d > Len(pre) + 1
        /\ MatchLiteral(name, d, suffix)
        /\ \/ end = Len(name) + 1
           \/ end = Len(name) /\ name[end] = 10
     THEN SubSeq(name, Len(pre) + 1, d - 1)
     ELSE <<>>

RECURSIVE Sorted(_)
\* sorted(set)
Sorted(S) ==
  IF S = {} THEN <<>>
  ELSE LET m == CHOOSE x \in S : \A y \in S : ~IntLess(y, x)
       IN <<m>> \o Sorted(S \ {m})

\* the two loops over the columns; an int() that raises leaves the function
detect_contact_indices(columns) ==
  LET emails == {MatchSlot(columns[k], <<95,101,109,97,105,108>> (* "_email" *)) : k \in 1..Len(columns)}
      flags == {MatchSlot(columns[k], <<95,102,108,97,103,115>> (* "_flags" *)) : k \in 1..Len(columns)}
      ints == {ParseInt(g) : g \in (emails \cup flags) \ {<<>>}}
  IN IF Raise("ValueError") \in ints THEN Raise("ValueError")
     ELSE Return(Sorted({i.returns : i \in ints}))

\* --------------------------------------------------- explode_by_contacts
email_col(i) == <<99,111,110,116,97,99,116,95>> (* "contact_" *) \o FormatInt(i) \o <<95,101,109,97,105,108>> (* "_email" *)
flags_col(i) == <<99,111,110,116,97,99,116,95>> (* "contact_" *) \o FormatInt(i) \o <<95,102,108,97,103,115>> (* "_flags" *)

\* email_list without the dict.fromkeys de-duplication
email_list_NO_DEDUP(email) ==
  IF notna(email)
  THEN LET found == FindAll(StrOf(email))
       IN [k \in 1..Len(found) |-> Lower(found[k])]
  ELSE <<>>

\* list(dict.fromkeys([e.lower() for e in EMAIL_RE.findall(str(email))]))
email_list(email) ==
  IF notna(email)
  THEN LET found == FindAll(StrOf(email))
       IN Unique([k \in 1..Len(found) |-> Lower(found[k])])
  ELSE <<>>

\* str(flags).strip().lower() if pd.notna(flags) else pd.NA
slot_flags(flags) == IF notna(flags) THEN Str(Lower(Strip(StrOf(flags)))) ELSE NA

\* row.copy() with new_row["Email"] and new_row["Flags"] set
new_row(cols, row, e, f) ==
  RowWith(ColsWith(cols, Email), RowWith(cols, row, Email, e), Flags, f)

\* slot_rows without the row a slot with no email gives
slot_rows_SKIP_EMPTY(cols, row, i) ==
  LET flags == Get(cols, row, <<99,111,110,116,97,99,116,95>> (* "contact_" *) \o FormatInt(i) \o <<95,102,108,97,103,115>> (* "_flags" *))
      el == email_list(Get(cols, row, <<99,111,110,116,97,99,116,95>> (* "contact_" *) \o FormatInt(i) \o <<95,101,109,97,105,108>> (* "_email" *)))
  IN [k \in 1..Len(el) |-> new_row(cols, row, Str(el[k]), slot_flags(flags))]

\* the rows one contact slot of one source row gives
slot_rows(cols, row, i) ==
  LET email == Get(cols, row, email_col(i))
      flags == Get(cols, row, flags_col(i))
      el == email_list(email)
  IN IF el = <<>>
     THEN <<new_row(cols, row, NA, slot_flags(flags))>>
     ELSE [k \in 1..Len(el) |-> new_row(cols, row, Str(el[k]), slot_flags(flags))]

RECURSIVE row_slots(_, _, _, _)
\* the inner loop: for i in contact_idxs
row_slots(cols, row, idxs, k) ==
  IF k > Len(idxs) THEN <<>>
  ELSE slot_rows(cols, row, idxs[k]) \o row_slots(cols, row, idxs, k + 1)

\* one pass of the outer loop, with the "if not emitted" fallback
row_rows(cols, row, idxs) ==
  LET emitted == row_slots(cols, row, idxs, 1)
  IN IF emitted = <<>> THEN <<new_row(cols, row, NA, NA)>> ELSE emitted

RECURSIVE out_rows(_, _, _)
out_rows(df, idxs, r) ==
  IF r > Len(df.rows) THEN <<>>
  ELSE row_rows(df.cols, df.rows[r], idxs) \o out_rows(df, idxs, r + 1)

\* the per-contact columns that are dropped
to_drop(idxs) == {email_col(idxs[k]) : k \in 1..Len(idxs)}
                 \cup {flags_col(idxs[k]) : k \in 1..Len(idxs)}

explode_by_contacts(df, idxs) ==
  IF idxs = <<>>
  THEN EnsureCol(EnsureCol(df, Email), Flags)
  ELSE LET rows == out_rows(df, idxs, 1)
           \* pd.DataFrame(out_rows): no rows give a frame with no columns
           exploded == [cols |-> IF rows = <<>> THEN <<>>
                                 ELSE ColsWith(ColsWith(df.cols, Email), Flags),
                        rows |-> rows]
       IN DropCols(EnsureCol(EnsureCol(exploded, Email), Flags), to_drop(idxs))

\* ------------------------------------------------------------ flags_match
renters_only == <<<<114,101,115,105,100,101,110,116,44,32,108,105,107,101,108,121,32,114,101,110,116,105,110,103>> (* "resident, likely renting" *), <<108,105,107,101,108,121,32,114,101,110,116,105,110,103>> (* "likely renting" *), <<114,101,110,116,101,114>> (* "renter" *)>>
owner_excl == <<<<108,105,107,101,108,121,32,111,119,110,101,114,44,32,114,101,115,105,100,101,110,116>> (* "likely owner, resident" *), <<108,105,107,101,108,121,32,111,119,110,101,114>> (* "likely owner" *), <<108,105,107,101,108,121,32,111,119,110,101,114,44,32,102,97,109,105,108,121>> (* "likely owner, family" *)>>

flags_match(flags_val, targets) ==
  IF isna(flags_val) THEN FALSE
  ELSE LET f == Lower(StrOf(flags_val))
       IN \E k \in 1..Len(targets) : Contains(f, targets[k])

\* the st.radio options
OwnersMode == <<79,119,110,101,114,115,32,108,105,115,116,32,8212,32,82,101,109,111,118,101,115,32,114,101,110,116,101,114,115,32,40,107,101,101,112,115,32,111,119,110,101,114,115,41>> (* "Owners list U+2014 Removes renters (keeps owners)" *)
RentersMode == <<82,101,110,116,101,114,115,32,108,105,115,116,32,8212,32,82,101,109,111,118,101,115,32,111,119,110,101,114,115,32,40,107,101,101,112,115,32,114,101,110,116,101,114,115,41>> (* "Renters list U+2014 Removes owners (keeps renters)" *)

\* both phrase sets tested whatever the mode
mode_targets_BOTH(mode) == renters_only \o owner_excl

\* the phrase set the mode tests: mode.startswith("Owners")
mode_targets(mode) == IF StartsWith(mode, <<79,119,110,101,114,115>> (* "Owners" *)) THEN renters_only ELSE owner_excl

\* ------------------------------------------------------ main flow stages
\* the rows of t at the indices in keep, columns as they are
KeepRows(t, keep) == [cols |-> t.cols, rows |-> Pick(t.rows, keep, 1)]

\* dropna that drops nothing
dropna_email_KEEP_ALL(work) == work

\* work.dropna(subset=["Email"])
dropna_email(work) ==
  KeepRows(work, {r \in 1..Len(work.rows) : notna(EmailOf(work, r))})

\* work[work["Email"].apply(looks_valid_email)].  On a frame with no rows the
\* applied Series is empty and not boolean, so the indexing selects an empty
\* list of columns.
filter_valid_email(work) ==
  IF work.rows = <<>> THEN [cols |-> <<>>, rows |-> <<>>]
  ELSE KeepRows(work, {r \in 1..Len(work.rows) : looks_valid_email(EmailOf(work, r))})

\* drop_duplicates with keep="last"
drop_duplicates_email_KEEP_LAST(work) ==
  KeepRows(work, {r \in 1..Len(work.rows) :
                    \A q \in (r + 1)..Len(work.rows) : EmailOf(work, q) # EmailOf(work, r)})

\* work.drop_duplicates(subset=["Email"], keep="first"); missing values are
\* equal to each other
drop_duplicates_email(work) ==
  KeepRows(work, {r \in 1..Len(work.rows) :
                    \A q \in 1..(r - 1) : EmailOf(work, q) # EmailOf(work, r)})

\* the mode's removal applied to the de-duplicated table
remove_by_mode_AFTER_DEDUPE(work, mode) ==
  LET d == drop_duplicates_email(work)
  IN KeepRows(d, {r \in 1..Len(d.rows) :
                    ~flags_match(FlagsOf(d, r),
                                 IF StartsWith(mode, <<79,119,110,101,114,115>> (* "Owners" *)) THEN renters_only
                                 ELSE owner_excl)})

\* flags_series, mask_remove and work.loc[~mask_remove]
remove_by_mode(work, mode) ==
  KeepRows(work, {r \in 1..Len(work.rows) :
                    ~flags_match(FlagsOf(work, r), mode_targets(mode))})

\* int(mask_remove.sum())
removed_by_mode(work, mode) ==
  Cardinality({r \in 1..Len(work.rows) :
                 flags_match(FlagsOf(work, r), mode_targets(mode))})

\* ----------------------------------------------------------- the uploads
\* The tables pd.read_csv can give: a header and up to MaxRows data rows.
\* A column holds str cells or numbers, never both, and never an empty str
\* (read_csv reads an empty field as missing).
TwoSlotCols == <<<<99,111,110,116,97,99,116,95,49,95,101,109,97,105,108>> (* "contact_1_email" *), <<99,111,110,116,97,99,116,95,49,95,102,108,97,103,115>> (* "contact_1_flags" *),
                 <<99,111,110,116,97,99,116,95,50,95,101,109,97,105,108>> (* "contact_2_email" *), <<99,111,110,116,97,99,116,95,50,95,102,108,97,103,115>> (* "contact_2_flags" *)>>
TwoSlotRows == {
  <<Str(<<120,64,121,46,99,111,109>> (* "x@y.com" *)), Str(<<108,105,107,101,108,121,32,114,101,110,116,105,110,103>> (* "likely renting" *)), NA, NA>>,
  <<Str(<<98,97,100,64>> (* "bad@" *)), Str(<<108,105,107,101,108,121,32,111,119,110,101,114>> (* "likely owner" *)), Str(<<122,64,119,46,99,111,109>> (* "z@w.com" *)), NA>>,
  <<Str(<<74,97,110,101,32,60,88,64,89,46,99,111,109,62,44,32,120,64,121,46,99,111,109,59,32,122,64,119,46,99,111,109>> (* "Jane <X@Y.com>, x@y.com; z@w.com" *)), Str(<<76,105,107,101,108,121,32,79,119,110,101,114,44,32,82,101,115,105,100,101,110,116>> (* "Likely Owner, Resident" *)),
    Str(<<32,122,64,119,46,99,111,109>> (* " z@w.com" *)), Str(<<82,101,115,105,100,101,110,116,44,32,76,105,107,101,108,121,32,82,101,110,116,105,110,103,32>> (* "Resident, Likely Renting " *))>>}

\* the last row's flags end in a carriage return, which str.strip() removes
OneSlotCols == <<<<110,97,109,101>> (* "name" *), <<99,111,110,116,97,99,116,95,49,95,101,109,97,105,108>> (* "contact_1_email" *), <<99,111,110,116,97,99,116,95,49,95,102,108,97,103,115>> (* "contact_1_flags" *)>>
OneSlotRows == {
  <<Str(<<65,110,110>> (* "Ann" *)), Str(<<97,64,98,45,46,99,111,109>> (* "a@b-.com" *)), Str(<<108,105,107,101,108,121,32,111,119,110,101,114>> (* "likely owner" *))>>,
  <<Str(<<32,66,111,98,32>> (* " Bob " *)), NA, NA>>,
  <<Str(<<67,121>> (* "Cy" *)), Str(<<120,64,121,46,99,111,109,32,122,64,119,46,99,111,109>> (* "x@y.com z@w.com" *)), Str(<<114,101,110,116,101,114>> (* "renter" *))>>,
  <<Str(<<68,101,101>> (* "Dee" *)), Str(<<120,64,121,46,99,111,109,44,32,88,64,89,46,67,79,77>> (* "x@y.com, X@Y.COM" *)), Str(<<32,76,105,107,101,108,121,32,82,101,110,116,105,110,103,13>> (* " Likely Renting\r" *))>>}

\* header names that differ from contact_<i>_email in case and digit padding
OddCaseCols == <<<<67,111,110,116,97,99,116,95,49,95,69,109,97,105,108>> (* "Contact_1_Email" *), <<99,111,110,116,97,99,116,95,48,49,95,102,108,97,103,115>> (* "contact_01_flags" *), <<112,114,105,99,101>> (* "price" *)>>
OddCaseRows == {
  <<Str(<<120,64,121,46,99,111,109,44,32,122,64,119,46,99,111,109>> (* "x@y.com, z@w.com" *)), Str(<<108,105,107,101,108,121,32,114,101,110,116,105,110,103>> (* "likely renting" *)), Num(<<53>>)>>,
  <<NA, Str(<<108,105,107,101,108,121,32,111,119,110,101,114>> (* "likely owner" *)), Num(<<55>>)>>,
  <<Str(<<122,64,119,46,99,111,109>> (* "z@w.com" *)), NA, Num(<<55>>)>>}

\* no contact columns at all
NoSlotCols == <<<<69,109,97,105,108>> (* "Email" *), <<70,108,97,103,115>> (* "Flags" *)>>
NoSlotRows == {
  <<Str(<<88,64,89,46,99,111,109>> (* "X@Y.com" *)), Str(<<76,105,107,101,108,121,32,82,101,110,116,105,110,103>> (* "Likely Renting" *))>>,
  <<NA, Str(<<108,105,107,101,108,121,32,111,119,110,101,114>> (* "likely owner" *))>>,
  <<Str(<<88,64,89,46,99,111,109>> (* "X@Y.com" *)), NA>>}

\* a slot with a flags column only, and an Email column of the export's own;
\* the last row's flags are spelt with the Kelvin sign U+212A, which
\* str.lower() turns into "k"
FlagsOnlyCols == <<<<99,111,110,116,97,99,116,95,49,50,95,102,108,97,103,115>> (* "contact_12_flags" *), <<69,109,97,105,108>> (* "Email" *)>>
FlagsOnlyRows == {
  <<Str(<<82,101,110,116,101,114>> (* "Renter" *)), Str(<<111,108,100,64,109,46,99,111,109>> (* "old@m.com" *))>>,
  <<NA, Str(<<111,108,100,64,109,46,99,111,109>> (* "old@m.com" *))>>,
  <<Str(<<76,73,8490,69,76,89,32,79,87,78,69,82,44,32,70,97,109,105,108,121>> (* "LIU+212AELY OWNER, Family" *)), NA>>}

\* an email column whose slot number has one digit more than int() converts
LongSlotCols == <<<<99,111,110,116,97,99,116,95>> (* "contact_" *) \o [k \in 1..(IntMaxStrDigits + 1) |-> 49] \o <<95,101,109,97,105,108>> (* "_email" *),
                  <<99,111,110,116,97,99,116,95,49,95,102,108,97,103,115>> (* "contact_1_flags" *)>>
LongSlotRows == {
  <<Str(<<120,64,121,46,99,111,109>> (* "x@y.com" *)), Str(<<114,101,110,116,101,114>> (* "renter" *))>>,
  <<NA, NA>>}

SeqsUpTo(S, n) == UNION {[1..k -> S] : k \in 0..n}

TablesOf(cols, pool) == {[cols |-> cols, rows |-> rs] : rs \in SeqsUpTo(pool, MaxRows)}

Tables ==
  TablesOf(TwoSlotCols, TwoSlotRows) \cup TablesOf(OneSlotCols, OneSlotRows)
  \cup TablesOf(OddCaseCols, OddCaseRows) \cup TablesOf(NoSlotCols, NoSlotRows)
  \cup TablesOf(FlagsOnlyCols, FlagsOnlyRows) \cup TablesOf(LongSlotCols, LongSlotRows)

None == [none |-> TRUE]

\* An upload: which of the three read_csv attempts succeed, and the table a
\* successful attempt gives.  Bytes that are not UTF-8 fail the first two
\* attempts; a malformed file fails all three.
Uploads ==
  {[ok |-> o, table |-> t] : o \in {<<TRUE, TRUE, TRUE>>, <<FALSE, FALSE, TRUE>>},
                             t \in Tables}
  \cup {[ok |-> <<FALSE, FALSE, FALSE>>, table |-> None]}

Options ==
  [mode : {OwnersMode, RentersMode}, do_trim : BOOLEAN, drop_no_email : BOOLEAN,
   filter_valid : BOOLEAN, dedupe_by_email : BOOLEAN]

\* ------------------------------------------------------------------ state
VARIABLES
  uploaded,      \* the uploaded file
  opts,          \* the sidebar widgets' values
  pc,            \* the place of the script's run
  enc,           \* robust_read_csv: the index of the encoding being tried
  df,            \* the table read (and trimmed)
  contact_idxs,  \* the detected slots
  work,          \* the table being cleaned
  log            \* what st.write / st.info / st.warning / st.error showed

vars == <<uploaded, opts, pc, enc, df, contact_idxs, work, log>>

Msg(stage, a, b) == [stage |-> stage, a |-> a, b |-> b]

Init ==
  /\ uploaded \in Uploads
  /\ opts \in Options
  /\ pc = "read"
  /\ enc = 1
  /\ df = None
  /\ contact_idxs = <<>>
  /\ work = None
  /\ log = <<>>

\* robust_read_csv: pd.read_csv succeeds under Encodings[enc]
ReadOk ==
  /\ pc = "read"
  /\ uploaded.ok[enc]
  /\ df' = uploaded.table
  /\ pc' = "trim"
  /\ log' = Append(log, Msg("read", enc, Len(uploaded.table.rows)))
  /\ UNCHANGED <<uploaded, opts, enc, contact_idxs, work>>

\* robust_read_csv: pd.read_csv raises under Encodings[enc]; try the next one
ReadNext ==
  /\ pc = "read"
  /\ ~uploaded.ok[enc]
  /\ enc < Len(Encodings)
  /\ enc' = enc + 1
  /\ UNCHANGED <<uploaded, opts, pc, df, contact_idxs, work, log>>

\* robust_read_csv returns None: st.error and st.stop()
ReadNone ==
  /\ pc = "read"
  /\ ~uploaded.ok[enc]
  /\ enc = Len(Encodings)
  /\ pc' = "stopped"
  /\ log' = Append(log, Msg("error", 0, 0))
  /\ UNCHANGED <<uploaded, opts, enc, df, contact_idxs, work>>

\* if do_trim: df = strip_object_columns(df)
Trim ==
  /\ pc = "trim"
  /\ IF opts.do_trim
     THEN df' = strip_object_columns(df) /\ log' = Append(log, Msg("trim", 0, 0))
     ELSE UNCHANGED <<df, log>>
  /\ pc' = "detect"
  /\ UNCHANGED <<uploaded, opts, enc, contact_idxs, work>>

\* contact_idxs = detect_contact_indices(list(df.columns)), st.warning / st.info
Detect ==
  /\ pc = "detect"
  /\ LET got == detect_contact_indices(df.cols)
     IN /\ got # Raise("ValueError")
        /\ contact_idxs' = got.returns
        /\ log' = Append(log, Msg(IF got.returns = <<>> THEN "no slots" ELSE "slots",
                                  Len(got.returns), 0))
  /\ pc' = "explode"
  /\ UNCHANGED <<uploaded, opts, enc, df, work>>

\* detect_contact_indices raises ValueError: nothing catches it, the script
\* run ends there with the exception shown
DetectRaises ==
  /\ pc = "detect"
  /\ detect_contact_indices(df.cols) = Raise("ValueError")
  /\ pc' = "raised"
  /\ log' = Append(log, Msg("exception", 0, 0))
  /\ UNCHANGED <<uploaded, opts, enc, df, contact_idxs, work>>

\* work = explode_by_contacts(df, contact_idxs), then the Email / Flags guard
Explode ==
  /\ pc = "explode"
  /\ LET exploded == explode_by_contacts(df, contact_idxs)
     IN /\ work' = EnsureCol(EnsureCol(exploded, Email), Flags)
        /\ log' = Append(log, Msg("explode", Len(df.rows), Len(exploded.rows)))
  /\ pc' = "drop"
  /\ UNCHANGED <<uploaded, opts, enc, df, contact_idxs>>

\* if drop_no_email: work = work.dropna(subset=["Email"])
DropNoEmail ==
  /\ pc = "drop"
  /\ IF opts.drop_no_email
     THEN LET kept == dropna_email(work)
          IN /\ work' = kept
             /\ log' = Append(log, Msg("drop", Len(work.rows), Len(kept.rows)))
     ELSE UNCHANGED <<work, log>>
  /\ pc' = "filter"
  /\ UNCHANGED <<uploaded, opts, enc, df, contact_idxs>>

\* if filter_valid and "Email" in work.columns: keep the valid-looking emails
FilterValid ==
  /\ pc = "filter"
  /\ IF opts.filter_valid /\ HasCol(work.cols, Email)
     THEN LET kept == filter_valid_email(work)
          IN /\ work' = kept
             /\ log' = Append(log, Msg("filter", Len(work.rows), Len(kept.rows)))
     ELSE UNCHANGED <<work, log>>
  /\ pc' = "policy"
  /\ UNCHANGED <<uploaded, opts, enc, df, contact_idxs>>

\* the mode's removal: renter rows for an owners list, owner rows for a
\* renters list
Policy ==
  /\ pc = "policy"
  /\ work' = remove_by_mode(work, opts.mode)
  /\ log' = Append(log, Msg("policy", Len(work.rows),
                            Len(work.rows) - removed_by_mode(work, opts.mode)))
  /\ pc' = "dedupe"
  /\ UNCHANGED <<uploaded, opts, enc, df, contact_idxs>>

\* if dedupe_by_email and "Email" in work.columns: drop_duplicates
Dedupe ==
  /\ pc = "dedupe"
  /\ IF opts.dedupe_by_email /\ HasCol(work.cols, Email)
     THEN LET kept == drop_duplicates_email(work)
          IN /\ work' = kept
             /\ log' = Append(log, Msg("dedupe", Len(work.rows), Len(kept.rows)))
     ELSE UNCHANGED <<work, log>>
  /\ pc' = "success"
  /\ UNCHANGED <<uploaded, opts, enc, df, contact_idxs>>

\* st.success, the preview and the download button
Success ==
  /\ pc = "success"
  /\ log' = Append(log, Msg("done", Len(work.rows), Len(work.rows)))
  /\ pc' = "done"
  /\ UNCHANGED <<uploaded, opts, enc, df, contact_idxs, work>>

Next ==
  \/ ReadOk \/ ReadNext \/ ReadNone
  \/ Trim \/ Detect \/ DetectRaises \/ Explode
  \/ DropNoEmail \/ FilterValid \/ Policy \/ Dedupe \/ Success

Spec == Init /\ [][Next]_vars

\* ================================================================ claims
Max(a, b) == IF a >= b THEN a ELSE b

RECURSIVE SeqSum(_)
SeqSum(ns) == IF ns = <<>> THEN 0 ELSE ns[1] + SeqSum(Tail(ns))

HasMsg(stage) == \E k \in 1..Len(log) : log[k].stage = stage
MsgOf(stage) == log[CHOOSE k \in 1..Len(log) : log[k].stage = stage]

\* the table explode_by_contacts has just returned is in work
Exploded == pc = "drop"

\* m_i: the number of distinct lowercased addresses in the cell the Exploder
\* reads for slot i of a row (column contact_<i>_email, missing when absent)
SlotEmailCount(cols, row, i) ==
  LET c == Get(cols, row, email_col(i))
  IN IF isna(c) THEN 0
     ELSE Cardinality({Lower(x) : x \in Range(FindAll(StrOf(c)))})

\* what one source row contributes: the sum over the slots of max(m_i, 1)
RowShare(cols, row, idxs) ==
  SeqSum([k \in 1..Len(idxs) |-> Max(SlotEmailCount(cols, row, idxs[k]), 1)])

\* the number of derived rows the source rows before row r contribute
Offset(r) == SeqSum([q \in 1..(r - 1) |-> RowShare(df.cols, df.rows[q], contact_idxs)])

\* a derived row is a copy of source row r outside Email, Flags and the
\* dropped columns
CopyOf(j, r) ==
  \A k \in 1..Len(work.cols) :
    (HasCol(df.cols, work.cols[k]) /\ work.cols[k] \notin {Email, Flags})
      => work.rows[j][k] = Get(df.cols, df.rows[r], work.cols[k])

\* C1: with slots detected, explode_by_contacts gives every source row, in
\* order, exactly sum over the slots of max(m_i, 1) derived rows, each a copy
\* of it; so every source row gives at least one row and the derived rows are
\* at least as many as the source rows.
C1_ExplodeRowCount ==
  (Exploded /\ contact_idxs # <<>>) =>
    /\ Len(work.rows) = Offset(Len(df.rows) + 1)
    /\ Len(work.rows) >= Len(df.rows)
    /\ \A r \in 1..Len(df.rows) :
         /\ RowShare(df.cols, df.rows[r], contact_idxs) >= 1
         /\ \A j \in (Offset(r) + 1)..Offset(r + 1) : CopyOf(j, r)

\* a table of two rows where one slot holds two addresses and another none
C1_Witness ==
  /\ Exploded /\ Len(contact_idxs) = 2 /\ Len(df.rows) = 2
  /\ \E r \in 1..2 : SlotEmailCount(df.cols, df.rows[r], contact_idxs[1]) = 2
  /\ \E r \in 1..2 : SlotEmailCount(df.cols, df.rows[r], contact_idxs[2]) = 0
  /\ Len(work.rows) = 5

\* no slot of any row holds more than one extracted address
NoMultiEmailCell ==
  \A r \in 1..Len(df.rows) : \A k \in 1..Len(contact_idxs) :
    SlotEmailCount(df.cols, df.rows[r], contact_idxs[k]) <= 1

\* C2 as stated: the Exploder's output has as many rows as its input if and
\* only if no slot holds more than one extracted address in any row, and has
\* more rows otherwise.
C2_EqualIffNoMultiEmail ==
  Exploded =>
    /\ Len(work.rows) >= Len(df.rows)
    /\ (Len(work.rows) = Len(df.rows)) <=> NoMultiEmailCell

\* C2 amended: the output has at least as many rows as the input, and as many
\* if and only if the input has no rows, or at most one slot is detected and
\* no slot holds more than one extracted address in any row.
C2_EqualIffOneSlotNoMultiEmail ==
  Exploded =>
    /\ Len(work.rows) >= Len(df.rows)
    /\ (Len(work.rows) = Len(df.rows)) <=>
         (df.rows = <<>> \/ (Len(contact_idxs) <= 1 /\ NoMultiEmailCell))

\* one slot whose cell repeats one address in two cases: as many rows out as in
C2_Witness ==
  /\ Exploded /\ Len(contact_idxs) = 1 /\ Len(df.rows) = 2
  /\ Len(work.rows) = 2
  /\ \E r \in 1..2 :
       Len(FindAll(StrOf(Get(df.cols, df.rows[r], email_col(contact_idxs[1]))))) = 2

\* the columns the SlotDetector matched as per-slot columns
SlotColumns(cols) ==
  {cols[k] : k \in {j \in 1..Len(cols) :
                      MatchSlot(cols[j], <<95,101,109,97,105,108>> (* "_email" *)) # <<>> \/ MatchSlot(cols[j], <<95,102,108,97,103,115>> (* "_flags" *)) # <<>>}}

\* C3: the table the Exploder returns has as columns exactly the original
\* columns minus every column the SlotDetector matched, plus Email and Flags.
C3_SlotColumnsDropped ==
  Exploded =>
    /\ Range(work.cols) = (Range(df.cols) \ SlotColumns(df.cols)) \cup {Email, Flags}
    /\ \A r \in 1..Len(work.rows) : Len(work.rows[r]) = Len(work.cols)

\* the phrases the claims name
RenterPhrases == {<<114,101,115,105,100,101,110,116,44,32,108,105,107,101,108,121,32,114,101,110,116,105,110,103>> (* "resident, likely renting" *), <<108,105,107,101,108,121,32,114,101,110,116,105,110,103>> (* "likely renting" *), <<114,101,110,116,101,114>> (* "renter" *)}
OwnerPhrases == {<<108,105,107,101,108,121,32,111,119,110,101,114,44,32,114,101,115,105,100,101,110,116>> (* "likely owner, resident" *), <<108,105,107,101,108,121,32,111,119,110,101,114>> (* "likely owner" *), <<108,105,107,101,108,121,32,111,119,110,101,114,44,32,102,97,109,105,108,121>> (* "likely owner, family" *)}

\* the phrase set the active policy selects
PolicyPhrases == IF opts.mode = OwnersMode THEN RenterPhrases ELSE OwnerPhrases
OtherPhrases == IF opts.mode = OwnersMode THEN OwnerPhrases ELSE RenterPhrases

\* a Flags value is present and, lowercased, contains a phrase of the set
Matches(flags, phrases) ==
  notna(flags) /\ \E ph \in phrases : Contains(Lower(StrOf(flags)), ph)

\* C4: the classification stage removes a row if and only if its Flags value
\* is present and, lowercased, contains a phrase of the set the active policy
\* selects; the other set is not tested, a row with missing Flags stays, and
\* the rows that stay keep their order.
C4_PolicyRemoval ==
  [][pc = "policy" =>
       /\ work'.cols = work.cols
       /\ work'.rows =
            Pick(work.rows,
                 {r \in 1..Len(work.rows) : ~Matches(FlagsOf(work, r), PolicyPhrases)}, 1)
       /\ \A r \in 1..Len(work.rows) :
            isna(FlagsOf(work, r)) => work.rows[r] \in Range(work'.rows)]_vars

\* the policy has removed a row, and kept a row with missing Flags and a row
\* whose Flags match the other phrase set
C4_Witness ==
  /\ pc = "dedupe"
  /\ MsgOf("policy").a > MsgOf("policy").b
  /\ \E r \in 1..Len(work.rows) : isna(FlagsOf(work, r))
  /\ \E r \in 1..Len(work.rows) : Matches(FlagsOf(work, r), OtherPhrases)

\* the rows that are the first of the table to carry their Email value
FirstOfEmail(t) ==
  {r \in 1..Len(t.rows) : \A q \in 1..(r - 1) : EmailOf(t, q) # EmailOf(t, r)}

\* C5: with dedupeByEmail on, the deduplication keeps for each Email value of
\* its input exactly the first row carrying it, whatever the Flags and other
\* columns, in the order they had; afterwards no two rows share an Email.
C5_DedupeKeepsFirst ==
  [][(pc = "dedupe" /\ opts.dedupe_by_email) =>
       /\ work'.rows = Pick(work.rows, FirstOfEmail(work), 1)
       /\ {EmailOf(work', r) : r \in 1..Len(work'.rows)}
            = {EmailOf(work, r) : r \in 1..Len(work.rows)}
       /\ \A r, q \in 1..Len(work'.rows) :
            EmailOf(work', r) = EmailOf(work', q) => r = q]_vars

\* the deduplication has removed a row, and a kept row has present Flags
C5_Witness ==
  /\ pc = "success"
  /\ HasMsg("dedupe")
  /\ MsgOf("dedupe").a > MsgOf("dedupe").b
  /\ MsgOf("dedupe").b >= 2
  /\ \E r \in 1..Len(work.rows) : notna(FlagsOf(work, r))

\* the stages of the log, in order
Stages == [k \in 1..Len(log) |-> log[k].stage]

\* the stages a run with a readable file goes through, given the options
EnabledStages ==
  <<"read">> \o (IF opts.do_trim THEN <<"trim">> ELSE <<>>)
  \o <<IF contact_idxs = <<>> THEN "no slots" ELSE "slots", "explode">>
  \o (IF opts.drop_no_email THEN <<"drop">> ELSE <<>>)
  \o (IF opts.filter_valid THEN <<"filter">> ELSE <<>>)
  \o <<"policy">>
  \o (IF opts.dedupe_by_email /\ ~(opts.filter_valid /\ MsgOf("filter").a = 0)
      THEN <<"dedupe">> ELSE <<>>)
  \o <<"done">>

\* Every action is its guard and assignments whose right-hand sides are
\* defined in every state, so a step can be taken exactly when a guard holds:
\* the guards of ReadOk, ReadNext and ReadNone, and of the stage at pc.  A run
\* that an uncaught exception ended (pc = "raised") takes no step.
CanStep ==
  \/ pc = "read" /\ enc \in 1..Len(Encodings)
  \/ pc \in {"trim", "detect"} /\ df # None
  \/ pc = "explode" /\ df # None /\ Return(contact_idxs) = detect_contact_indices(df.cols)
  \/ pc \in {"drop", "filter", "policy", "dedupe", "success"} /\ work # None

\* C6: a run ends in one of two ways.  Either an encoding succeeds, the first
\* that does (tried in the order utf-8, utf-8-sig, latin-1) is used and the run
\* goes through every enabled stage to a final table (the deduplication has
\* nothing to do when the validity filter was given a table without rows); or all
\* three fail, the run stops with the error, no stage has run and there is no
\* table.  Nothing else stops a run: before its end a run can always go on,
\* whatever slots, columns, flags and email text the file holds.
C6_TwoOutcomes ==
  /\ Encodings = <<"utf-8", "utf-8-sig", "latin-1">>
  /\ pc \notin {"done", "stopped"} => CanStep
  /\ pc = "stopped" =>
       /\ \A e \in 1..Len(Encodings) : ~uploaded.ok[e]
       /\ Stages = <<"error">>
       /\ df = None /\ work = None
  /\ pc \notin {"read", "stopped"} =>
       /\ log[1].stage = "read"
       /\ uploaded.ok[log[1].a] /\ \A e \in 1..(log[1].a - 1) : ~uploaded.ok[e]
       /\ df # None
  /\ pc = "done" =>
       /\ Stages = EnabledStages
       /\ work # None
       /\ MsgOf("done").a = Len(work.rows)

\* the (Email, Flags) pairs of the rows of work, in order
Pairs == [r \in 1..Len(work.rows) |-> <<EmailOf(work, r), FlagsOf(work, r)>>]

\* the end-to-end scenario's input and options
ScenarioTable ==
  [cols |-> TwoSlotCols,
   rows |-> << <<Str(<<120,64,121,46,99,111,109>> (* "x@y.com" *)), Str(<<108,105,107,101,108,121,32,114,101,110,116,105,110,103>> (* "likely renting" *)), NA, NA>>,
               <<Str(<<98,97,100,64>> (* "bad@" *)), Str(<<108,105,107,101,108,121,32,111,119,110,101,114>> (* "likely owner" *)), Str(<<122,64,119,46,99,111,109>> (* "z@w.com" *)), NA>> >>]
Scenario ==
  /\ uploaded.ok[1] /\ uploaded.table = ScenarioTable
  /\ opts = [mode |-> OwnersMode, do_trim |-> TRUE, drop_no_email |-> TRUE,
             filter_valid |-> TRUE, dedupe_by_email |-> TRUE]

\* C7 as stated: in the scenario the explosion gives 3 rows (x@y.com with
\* "likely renting", bad@ with "likely owner", z@w.com with missing Flags), the
\* validity filter drops the bad@ row, the renter removal drops the x@y.com
\* row, and the final table is the one row z@w.com with missing Flags.
C7_ScenarioThreeRows ==
  Scenario =>
    /\ Exploded =>
         Pairs = << <<Str(<<120,64,121,46,99,111,109>> (* "x@y.com" *)), Str(<<108,105,107,101,108,121,32,114,101,110,116,105,110,103>> (* "likely renting" *))>>,
                    <<Str(<<98,97,100,64>> (* "bad@" *)), Str(<<108,105,107,101,108,121,32,111,119,110,101,114>> (* "likely owner" *))>>,
                    <<Str(<<122,64,119,46,99,111,109>> (* "z@w.com" *)), NA>> >>
    /\ pc = "policy" => MsgOf("filter").a - MsgOf("filter").b = 1
    /\ pc = "dedupe" => MsgOf("policy").a - MsgOf("policy").b = 1
    /\ pc = "done" => Pairs = << <<Str(<<122,64,119,46,99,111,109>> (* "z@w.com" *)), NA>> >>

\* C7 amended: in the scenario the explosion gives 4 rows (x@y.com with
\* "likely renting"; a missing Email with missing Flags for row A's empty
\* second slot; a missing Email with "likely owner", since "bad@" holds no
\* address; z@w.com with missing Flags), the missing-Email drop removes two
\* rows, the validity filter none, the renter removal the x@y.com row, and the
\* final table is the one row z@w.com with missing Flags.
C7_ScenarioFourRows ==
  Scenario =>
    /\ Exploded =>
         Pairs = << <<Str(<<120,64,121,46,99,111,109>> (* "x@y.com" *)), Str(<<108,105,107,101,108,121,32,114,101,110,116,105,110,103>> (* "likely renting" *))>>,
                    <<NA, NA>>,
                    <<NA, Str(<<108,105,107,101,108,121,32,111,119,110,101,114>> (* "likely owner" *))>>,
                    <<Str(<<122,64,119,46,99,111,109>> (* "z@w.com" *)), NA>> >>
    /\ pc = "filter" => MsgOf("drop").a = 4 /\ MsgOf("drop").b = 2
    /\ pc = "policy" => MsgOf("filter").a = 2 /\ MsgOf("filter").b = 2
    /\ pc = "dedupe" => MsgOf("policy").a = 2 /\ MsgOf("policy").b = 1
    /\ pc = "done" =>
         /\ MsgOf("dedupe").a = 1 /\ MsgOf("dedupe").b = 1
         /\ Pairs = << <<Str(<<122,64,119,46,99,111,109>> (* "z@w.com" *)), NA>> >>

\* the scenario has run to its end
C7_Witness == Scenario /\ pc = "done" /\ Len(work.rows) = 1

\* the rows of a table whose Email is missing
MissingEmailRows(t) == Pick(t.rows, {r \in 1..Len(t.rows) : isna(EmailOf(t, r))}, 1)

\* C8 as stated: with filterValidEmails on and dropMissingEmail off, every row
\* whose Email is missing passes the validity filter unchanged.
C8_MissingEmailPasses ==
  [][(pc = "filter" /\ opts.filter_valid /\ ~opts.drop_no_email) =>
       MissingEmailRows(work') = MissingEmailRows(work)]_vars

\* C8 amended: with filterValidEmails on, the validity filter removes every
\* row whose Email is missing, dropMissingEmail on or off (the validator is
\* applied to every row and a missing Email is not valid); the rows with a
\* valid Email stay, in order, and no row with a missing Email reaches the
\* classification.
C8_MissingEmailRemoved ==
  [][(pc = "filter" /\ opts.filter_valid) =>
       /\ MissingEmailRows(work') = <<>>
       /\ work'.rows =
            Pick(work.rows,
                 {r \in 1..Len(work.rows) :
                    notna(EmailOf(work, r)) /\ looks_valid_email(EmailOf(work, r))}, 1)]_vars

\* with dropMissingEmail off, the validity filter has removed rows and the
\* exploded table held a row with a missing Email
C8_Witness ==
  /\ pc = "policy" /\ opts.filter_valid /\ ~opts.drop_no_email
  /\ MsgOf("filter").a > MsgOf("filter").b
  /\ MsgOf("filter").b >= 1
  /\ MissingEmailRows(explode_by_contacts(df, contact_idxs)) # <<>>

\* the derived rows, in explosion order
Derived == EnsureCol(EnsureCol(explode_by_contacts(df, contact_idxs), Email), Flags)

\* a derived row is excluded by the policy
Excluded(r) == Matches(FlagsOf(Derived, r), PolicyPhrases)

\* a derived row carries a valid address and is the first row not excluded
\* that carries it
FirstKept(r) ==
  /\ notna(EmailOf(Derived, r)) /\ looks_valid_email(EmailOf(Derived, r))
  /\ ~Excluded(r)
  /\ \A q \in 1..(r - 1) :
       EmailOf(Derived, q) = EmailOf(Derived, r) => Excluded(q)

AllOptions ==
  opts.do_trim /\ opts.drop_no_email /\ opts.filter_valid /\ opts.dedupe_by_email

\* C9: with the four options on, the final table holds exactly one row for
\* each address that passes the validator and has a derived row the policy
\* does not exclude, and that row is the first such derived row in explosion
\* order; an address whose earliest derived row is excluded still appears
\* when a later one is not.
C9_FinalTable ==
  (pc = "done" /\ AllOptions) =>
    work.rows = Pick(Derived.rows, {r \in 1..Len(Derived.rows) : FirstKept(r)}, 1)

\* the final table holds an address whose earliest derived row was excluded
C9_Witness ==
  /\ pc = "done" /\ AllOptions
  /\ \E r \in 1..Len(Derived.rows) :
       /\ FirstKept(r)
       /\ \E q \in 1..(r - 1) : EmailOf(Derived, q) = EmailOf(Derived, r) /\ Excluded(q)
       /\ Derived.rows[r] \in Range(work.rows)

\* the table as read, before the trim stage
Read == uploaded.table

\* the number of derived rows the slots before the k-th give source row r
SlotOffset(r, k) ==
  SeqSum([i \in 1..(k - 1) |->
            Max(SlotEmailCount(df.cols, df.rows[r], contact_idxs[i]), 1)])

\* C10: the trim stage only strips the whitespace around present text cells:
\* a missing cell stays missing and a column without text is unchanged; so,
\* with trim on, a derived row from a slot whose flags cell is missing in the
\* source has missing Flags.
C10_TrimKeepsMissing ==
  opts.do_trim =>
    /\ pc = "detect" =>
         /\ df.cols = Read.cols
         /\ \A r \in 1..Len(Read.rows) : \A k \in 1..Len(Read.cols) :
              df.rows[r][k] = IF Read.rows[r][k].kind = "str"
                              THEN Str(Strip(Read.rows[r][k].s))
                              ELSE Read.rows[r][k]
    /\ Exploded =>
         \A r \in 1..Len(Read.rows) : \A k \in 1..Len(contact_idxs) :
           isna(Get(Read.cols, Read.rows[r], flags_col(contact_idxs[k]))) =>
             \A j \in (Offset(r) + SlotOffset(r, k) + 1)..(Offset(r) + SlotOffset(r, k + 1)) :
               isna(FlagsOf(work, j))
====
